---- MODULE Spec2Model ----
(***************************************************************************)
(* A model of deidentify_pii.py: the PIIDeidentifier engine (its mapping   *)
(* tables, its counters and the four regular-expression passes of          *)
(* deidentify_text) and the command-line driver main().                    *)
(*                                                                         *)
(* A text is a sequence of one-character strings.  While a call runs, each *)
(* character is carried in a cell [c, src, occ, by]: c is the character,   *)
(* src its index in the call's input text (0 for a character written by a  *)
(* pass), by the number of the pass that wrote it (0 for input) and occ    *)
(* the number of the replacement it belongs to (0 for input).  src, occ    *)
(* and by are bookkeeping only; no pass reads them.                        *)
(***************************************************************************)
EXTENDS Integers, Sequences, FiniteSets, TLC

\* ------------------------------------------------------------ characters

LowerLetters == <<"a","b","c","d","e","f","g","h","i","j","k","l","m","n","o","p","q","r","s","t","u","v","w","x","y","z">>

UpperLetters == <<"A","B","C","D","E","F","G","H","I","J","K","L","M","N","O","P","Q","R","S","T","U","V","W","X","Y","Z">>

DigitChars == <<"0","1","2","3","4","5","6","7","8","9">>

Range(s) == {s[i] : i \in DOMAIN s}

\* a function on 1..n, written out as the sequence it is
Tuple(f) == f \o <<>>

Lowers == Range(LowerLetters)

Uppers == Range(UpperLetters)

Letters == Lowers \cup Uppers

Digits == Range(DigitChars)

\* \w of the re module (ASCII part)
WordChars == Letters \cup Digits \cup {"_"}

\* \s of the re module (the members the texts use)
SpaceChars == {" ", "\t", "\n"}

IndexIn(s, c) == CHOOSE i \in DOMAIN s : s[i] = c

\* str.lower() and str.upper(), one character
LowerChar(c) == IF c \in Uppers THEN LowerLetters[IndexIn(UpperLetters, c)] ELSE c

UpperChar(c) == IF c \in Lowers THEN UpperLetters[IndexIn(LowerLetters, c)] ELSE c

lower(s) == Tuple([i \in DOMAIN s |-> LowerChar(s[i])])

upper(s) == Tuple([i \in DOMAIN s |-> UpperChar(s[i])])

\* str(n) for n >= 0
RECURSIVE Str(_)
Str(n) == IF n < 10 THEN <<DigitChars[n + 1]>> ELSE Str(n \div 10) \o <<DigitChars[(n % 10) + 1]>>

\* s.zfill(w)
RECURSIVE zfill(_, _)
zfill(s, w) == IF Len(s) >= w THEN s ELSE zfill(<<"0">> \o s, w)

\* s.startswith(pre)
startswith(s, pre) == Len(s) >= Len(pre) /\ SubSeq(s, 1, Len(pre)) = pre

\* sub in s
Contains(s, sub) == \E i \in 1..(Len(s) - Len(sub) + 1) : SubSeq(s, i, i + Len(sub) - 1) = sub

\* ------------------------------------------------------------ cells

Cells(s) == Tuple([i \in DOMAIN s |-> [c |-> s[i], src |-> i, occ |-> 0, by |-> 0]])

Chars(t) == Tuple([i \in DOMAIN t |-> t[i].c])

\* ------------------------------------------------------------ regular expressions
\* A pattern is a sequence of items: a word boundary \b, a negative lookahead
\* (?!...), or a character class with a greedy quantifier {min,max} (max = -1
\* is unbounded).  A literal character is a one-character class, matched once.

B == [k |-> "b", cls |-> {}, min |-> 0, max |-> 0, pat |-> <<>>]

NotAhead(p) == [k |-> "nla", cls |-> {}, min |-> 0, max |-> 0, pat |-> p]

Rep(S, lo, hi) == [k |-> "set", cls |-> S, min |-> lo, max |-> hi, pat |-> <<>>]

Lit(c) == Rep({c}, 1, 1)

Opt(S) == Rep(S, 0, 1)

Star(S) == Rep(S, 0, -1)

Plus(S) == Rep(S, 1, -1)

\* a literal string, as re.escape(s) compiles
Literal(s) == Tuple([i \in DOMAIN s |-> Lit(s[i])])

\* a literal string under re.IGNORECASE
LiteralIgnoreCase(s) == Tuple([i \in DOMAIN s |-> Rep({LowerChar(s[i]), UpperChar(s[i])}, 1, 1)])

\* \b at position p: exactly one of t[p-1], t[p] is a word character
WordBoundary(t, p) ==
    LET before == p > 1 /\ p - 1 <= Len(t) /\ t[p - 1].c \in WordChars
        after == p >= 1 /\ p <= Len(t) /\ t[p].c \in WordChars
    IN before # after

\* the longest run of characters of S starting at p, at most hi long
RECURSIVE Run(_, _, _, _)
Run(t, p, S, hi) ==
    IF hi = 0 \/ p > Len(t) \/ t[p].c \notin S THEN 0
    ELSE 1 + Run(t, p + 1, S, IF hi < 0 THEN hi ELSE hi - 1)

\* The backtracking matcher: the position after the match of items k.. of pat
\* at position p of t, or 0 when there is none.  A quantified class takes the
\* longest run first and gives characters back one at a time.
RECURSIVE Match(_, _, _, _)
RECURSIVE TryLen(_, _, _, _, _)
Match(pat, k, t, p) ==
    IF k > Len(pat) THEN p
    ELSE IF pat[k].k = "b" THEN (IF WordBoundary(t, p) THEN Match(pat, k + 1, t, p) ELSE 0)
    ELSE IF pat[k].k = "nla" THEN (IF Match(pat[k].pat, 1, t, p) # 0 THEN 0 ELSE Match(pat, k + 1, t, p))
    ELSE TryLen(pat, k, t, p, Run(t, p, pat[k].cls, pat[k].max))

TryLen(pat, k, t, p, n) ==
    IF n < pat[k].min THEN 0
    ELSE LET r == Match(pat, k + 1, t, p + n)
         IN IF r # 0 THEN r ELSE TryLen(pat, k, t, p, n - 1)

\* The spans <<first, next>> of the non-overlapping matches of pat in t, left
\* to right, as re.sub (re.finditer) finds them.  No pattern of the program
\* matches the empty string.
RECURSIVE FindAll(_, _, _)
FindAll(pat, t, p) ==
    IF p > Len(t) THEN <<>>
    ELSE LET e == Match(pat, 1, t, p)
         IN IF e > p THEN <<<<p, e>>>> \o FindAll(pat, t, e) ELSE FindAll(pat, t, p + 1)

\* the replacement number of the cells written for match j of a pass: that of
\* the first replaced cell it consumes, else a new one
OccOf(t, m, pass, j) ==
    LET old == SelectSeq(SubSeq(t, m[1], m[2] - 1), LAMBDA x : x.occ # 0)
    IN IF old = <<>> THEN pass * 100 + j ELSE old[1].occ

NewCells(t, m, r, pass, j) ==
    LET o == OccOf(t, m, pass, j)
    IN Tuple([i \in DOMAIN r |-> [c |-> r[i], src |-> 0, occ |-> o, by |-> pass]])

\* pattern.sub: t with the j-th matched span replaced by repls[j]
RECURSIVE Splice(_, _, _, _, _, _)
Splice(t, ms, repls, pass, j, p) ==
    IF j > Len(ms) THEN SubSeq(t, p, Len(t))
    ELSE SubSeq(t, p, ms[j][1] - 1) \o NewCells(t, ms[j], repls[j], pass, j)
         \o Splice(t, ms, repls, pass, j + 1, ms[j][2])

\* a sub that takes the character after each match with the match
sub_trailing(t, ms, repls, pass) ==
    Splice(t, [j \in DOMAIN ms |-> <<ms[j][1], ms[j][2] + (IF ms[j][2] <= Len(t) THEN 1 ELSE 0)>>],
           repls, pass, 1, 1)

sub(t, ms, repls, pass) == Splice(t, ms, repls, pass, 1, 1)

\* the matched strings of a pass, match.group(0)
Groups(t, ms) == Tuple([j \in DOMAIN ms |-> Chars(SubSeq(t, ms[j][1], ms[j][2] - 1))])

\* bookkeeping of a pass: one entry per match that consumed input characters
\* only, and the (pass, writer) pairs of the cells the pass consumed
LogOf(t, ms, repls, news, pass, cat) ==
    {[occ |-> pass * 100 + j, cat |-> cat, pass |-> pass, v |-> Groups(t, ms)[j],
      repl |-> repls[j], new |-> news[j]] :
        j \in {i \in DOMAIN ms : \A q \in ms[i][1]..(ms[i][2] - 1) : t[q].by = 0}}

HitsOf(t, ms, pass) ==
    {<<pass, t[q].by>> : q \in UNION {ms[j][1]..(ms[j][2] - 1) : j \in DOMAIN ms}}

\* the input characters (by their index) the pass consumed
GoneOf(t, ms) ==
    {t[q].src : q \in UNION {ms[j][1]..(ms[j][2] - 1) : j \in DOMAIN ms}} \ {0}

ApplyPass(tp, ms, repls, news, pass, cat) ==
    [t |-> sub(tp.t, ms, repls, pass),
     log |-> tp.log \cup LogOf(tp.t, ms, repls, news, pass, cat),
     hits |-> tp.hits \cup HitsOf(tp.t, ms, pass),
     gone |-> tp.gone \cup GoneOf(tp.t, ms)]

\* ------------------------------------------------------------ string constants of the program

GMAIL == <<"g","m","a","i","l",".","c","o","m">>

HOTMAIL == <<"h","o","t","m","a","i","l",".","c","o","m">>

EXAMPLE == <<"e","x","a","m","p","l","e",".","c","o","m">>

\* "0XXX XXX ", "+61 XXX XXX ", "XXX XXX ": the placeholders before the number
PL0 == <<"0","X","X","X"," ","X","X","X"," ">>

PL61 == <<"+","6","1"," ","X","X","X"," ","X","X","X"," ">>

PLX == <<"X","X","X"," ","X","X","X"," ">>

MOBILE == <<"M","o","b","i","l","e",":">>

\* ------------------------------------------------------------ PIIDeidentifier.__init__

LocalChars == Letters \cup Digits \cup {".", "_", "%", "+", "-"}

DomainChars == Letters \cup Digits \cup {".", "-"}

\* [A-Z|a-z]: the bar is a member of the class
TldChars == Letters \cup {"|"}

\* \b[A-Za-z0-9._%+-]+@[A-Za-z0-9.-]+\.[A-Z|a-z]{2,}\b
email_pattern == <<B, Plus(LocalChars), Lit("@"), Plus(DomainChars), Lit("."), Rep(TldChars, 2, -1), B>>

phone_patterns ==
    << \* \+61\s?\d+\s?\d+\s?\d+
       Literal(<<"+","6","1">>) \o <<Opt(SpaceChars), Plus(Digits), Opt(SpaceChars), Plus(Digits), Opt(SpaceChars), Plus(Digits)>>,
       \* \b0\d{3}\s?\d{3}\s?\d{3}\b
       <<B, Lit("0"), Rep(Digits, 3, 3), Opt(SpaceChars), Rep(Digits, 3, 3), Opt(SpaceChars), Rep(Digits, 3, 3), B>>,
       \* \b\d{9,10}\b
       <<B, Rep(Digits, 9, 10), B>>,
       \* \b\(\d{2}\)\s?\d{4}\s?\d{4}\b
       <<B, Lit("("), Rep(Digits, 2, 2), Lit(")"), Opt(SpaceChars), Rep(Digits, 4, 4), Opt(SpaceChars), Rep(Digits, 4, 4), B>>,
       \* \b0[2-9]\s?\d{4}\s?\d{4}\b
       <<B, Lit("0"), Rep(Digits \ {"0", "1"}, 1, 1), Opt(SpaceChars), Rep(Digits, 4, 4), Opt(SpaceChars), Rep(Digits, 4, 4), B>> >>

\* the keys of specific_names, in the dict's order
specific_names == <<<<"Z","o","e"," ","W">>, <<"J","a","m","e","s"," ","B">>, <<"J","a","s","o","n"," ","W">>, <<"J","o","h","n"," ","S","m","i","t","h">>>>

common_first_names == <<<<"Z","o","e">>,
                        <<"J","a","m","e","s">>,
                        <<"J","a","s","o","n">>,
                        <<"J","o","h","n">>,
                        <<"J","a","n","e">>,
                        <<"M","i","c","h","a","e","l">>,
                        <<"S","a","r","a","h">>,
                        <<"D","a","v","i","d">>,
                        <<"L","i","s","a">>,
                        <<"R","o","b","e","r","t">>,
                        <<"M","a","r","y">>,
                        <<"W","i","l","l","i","a","m">>,
                        <<"P","a","t","r","i","c","i","a">>>>

id_patterns ==
    << \* \bID:\s*\d+\b
       <<B>> \o Literal(<<"I","D",":">>) \o <<Star(SpaceChars), Plus(Digits), B>>,
       \* \bMobile:\s*\d+\b
       <<B>> \o Literal(<<"M","o","b","i","l","e",":">>) \o <<Star(SpaceChars), Plus(Digits), B>> >>

EmptyMap == [x \in {} |-> <<>>]

\* the engine after construction
NewEngine ==
    [email_mappings |-> EmptyMap, name_mappings |-> EmptyMap, phone_mappings |-> EmptyMap,
     id_mappings |-> EmptyMap, email_counter |-> 1, name_counter |-> 1,
     phone_counter |-> 1, id_counter |-> 1]

\* ------------------------------------------------------------ deidentify_emails

\* email.split('@')[1]
RECURSIVE UpToAt(_)
UpToAt(s) == IF s = <<>> \/ Head(s) = "@" THEN <<>> ELSE <<Head(s)>> \o UpToAt(Tail(s))

RECURSIVE AfterAt(_)
AfterAt(s) == IF s = <<>> THEN <<>> ELSE IF Head(s) = "@" THEN Tail(s) ELSE AfterAt(Tail(s))

DomainOf(email) == UpToAt(AfterAt(email))

EmailReplacement(email, file_identifier) ==
    IF Contains(DomainOf(email), GMAIL) THEN file_identifier \o <<"@">> \o GMAIL
    ELSE IF Contains(DomainOf(email), HOTMAIL) THEN file_identifier \o <<"@">> \o HOTMAIL
    ELSE file_identifier \o <<"@">> \o EXAMPLE

replace_email(email, file_identifier, map) ==
    IF email \notin DOMAIN map
    THEN LET replacement == EmailReplacement(email, file_identifier)
         IN [map |-> map @@ (email :> replacement), repl |-> replacement, new |-> TRUE]
    ELSE [map |-> map, repl |-> map[email], new |-> FALSE]

RECURSIVE EmailFold(_, _, _, _)
EmailFold(gs, j, file_identifier, acc) ==
    IF j > Len(gs) THEN acc
    ELSE LET r == replace_email(gs[j], file_identifier, acc.map)
         IN EmailFold(gs, j + 1, file_identifier,
                      [map |-> r.map, repls |-> Append(acc.repls, r.repl), news |-> Append(acc.news, r.new)])

\* The passes work on st = [tp, eng, ...]: tp.t is the text, eng the engine.
EmailPass(st, ms, f) ==
    [st EXCEPT !.tp = ApplyPass(st.tp, ms, f.repls, f.news, 1, "email"),
               !.eng.email_mappings = f.map]

EmailMatches(st, ms, file_identifier) ==
    EmailPass(st, ms, EmailFold(Groups(st.tp.t, ms), 1, file_identifier,
                                [map |-> st.eng.email_mappings, repls |-> <<>>, news |-> <<>>]))

deidentify_emails(st, file_identifier) ==
    EmailMatches(st, FindAll(email_pattern, st.tp.t, 1), file_identifier)

\* ------------------------------------------------------------ deidentify_phones

\* placeholders of digits: zeros where the program writes "XXX XXX "
PhoneReplacement_digits(phone, counter) ==
    IF startswith(phone, <<"0">>) THEN <<"0","0","0","0","0","0","0">> \o zfill(Str(counter), 3)
    ELSE IF Contains(phone, <<"+","6","1">>) THEN <<"+","6","1","0","0","0","0","0","0">> \o zfill(Str(counter), 3)
    ELSE <<"0","0","0","0","0","0">> \o zfill(Str(counter), 3)

PhoneReplacement(phone, counter) ==
    IF startswith(phone, <<"0">>) THEN PL0 \o zfill(Str(counter), 3)
    ELSE IF Contains(phone, <<"+","6","1">>) THEN PL61 \o zfill(Str(counter), 3)
    ELSE PLX \o zfill(Str(counter), 3)

\* a replace_phone that forgets "self.phone_counter += 1"
replace_phone_stuck(phone, map, counter) ==
    IF phone \notin DOMAIN map
    THEN LET replacement == PhoneReplacement(phone, counter)
         IN [map |-> map @@ (phone :> replacement), counter |-> counter,
             repl |-> replacement, new |-> TRUE]
    ELSE [map |-> map, counter |-> counter, repl |-> map[phone], new |-> FALSE]

replace_phone(phone, map, counter) ==
    IF phone \notin DOMAIN map
    THEN LET replacement == PhoneReplacement(phone, counter)
         IN [map |-> map @@ (phone :> replacement), counter |-> counter + 1,
             repl |-> replacement, new |-> TRUE]
    ELSE [map |-> map, counter |-> counter, repl |-> map[phone], new |-> FALSE]

RECURSIVE PhoneFold(_, _, _)
PhoneFold(gs, j, acc) ==
    IF j > Len(gs) THEN acc
    ELSE LET r == replace_phone(gs[j], acc.map, acc.counter)
         IN PhoneFold(gs, j + 1,
                      [map |-> r.map, counter |-> r.counter,
                       repls |-> Append(acc.repls, r.repl), news |-> Append(acc.news, r.new)])

\* one turn of "for pattern in self.phone_patterns"
PhoneSub(st, k, ms, f) ==
    [st EXCEPT !.tp = ApplyPass(st.tp, ms, f.repls, f.news, 1 + k, "phone"),
               !.eng.phone_mappings = f.map,
               !.eng.phone_counter = f.counter]

PhoneMatches(st, k, ms) ==
    PhoneSub(st, k, ms, PhoneFold(Groups(st.tp.t, ms), 1,
                                  [map |-> st.eng.phone_mappings, counter |-> st.eng.phone_counter,
                                   repls |-> <<>>, news |-> <<>>]))

PhonePass(st, k) == PhoneMatches(st, k, FindAll(phone_patterns[k], st.tp.t, 1))

RECURSIVE PhoneLoop(_, _)
\* (no pattern matches in an empty text)
PhoneLoop(st, k) ==
    IF k > Len(phone_patterns) \/ st.tp.t = <<>> THEN st ELSE PhoneLoop(PhonePass(st, k), k + 1)

deidentify_phones(st) == PhoneLoop(st, 1)

\* ------------------------------------------------------------ deidentify_names

\* re.sub(pattern, file_identifier, text): every match becomes file_identifier
NameSub(st, ms, file_identifier, pass) ==
    [st EXCEPT !.tp = ApplyPass(st.tp, ms, [j \in DOMAIN ms |-> file_identifier],
                                [j \in DOMAIN ms |-> FALSE], pass, "name")]

NamePass(st, pat, file_identifier, pass) ==
    NameSub(st, FindAll(pat, st.tp.t, 1), file_identifier, pass)

\* re.escape(original_name) under re.IGNORECASE
SpecificPattern(k) == LiteralIgnoreCase(specific_names[k])

\* rf'\b{name}\b(?!\s+[A-Z])'
CommonPattern(k) == <<B>> \o Literal(common_first_names[k]) \o <<B, NotAhead(<<Plus(SpaceChars), Rep(Uppers, 1, 1)>>)>>

RECURSIVE SpecificLoop(_, _, _)
SpecificLoop(st, file_identifier, k) ==
    IF k > Len(specific_names) \/ st.tp.t = <<>> THEN st
    ELSE SpecificLoop(NamePass(st, SpecificPattern(k), file_identifier, 6 + k), file_identifier, k + 1)

RECURSIVE CommonLoop(_, _, _)
CommonLoop(st, file_identifier, k) ==
    IF k > Len(common_first_names) \/ st.tp.t = <<>> THEN st
    ELSE CommonLoop(NamePass(st, CommonPattern(k), file_identifier, 10 + k), file_identifier, k + 1)

deidentify_names(st, file_identifier) ==
    CommonLoop(SpecificLoop(st, file_identifier, 1), file_identifier, 1)

\* ------------------------------------------------------------ deidentify_ids

IdReplacement(id_text, counter) ==
    IF Contains(id_text, <<"I","D",":">>) THEN <<"I","D",":"," ">> \o zfill(Str(counter), 6)
    ELSE IF Contains(id_text, MOBILE) THEN MOBILE \o <<" ","X","X","X","X">> \o zfill(Str(counter), 3)
    ELSE <<"I","D","_">> \o Str(counter)

replace_id(id_text, map, counter) ==
    IF id_text \notin DOMAIN map
    THEN LET replacement == IdReplacement(id_text, counter)
         IN [map |-> map @@ (id_text :> replacement), counter |-> counter + 1,
             repl |-> replacement, new |-> TRUE]
    ELSE [map |-> map, counter |-> counter, repl |-> map[id_text], new |-> FALSE]

RECURSIVE IdFold(_, _, _)
IdFold(gs, j, acc) ==
    IF j > Len(gs) THEN acc
    ELSE LET r == replace_id(gs[j], acc.map, acc.counter)
         IN IdFold(gs, j + 1,
                   [map |-> r.map, counter |-> r.counter,
                    repls |-> Append(acc.repls, r.repl), news |-> Append(acc.news, r.new)])

\* one turn of "for pattern in self.id_patterns"
IdSub(st, k, ms, f) ==
    [st EXCEPT !.tp = ApplyPass(st.tp, ms, f.repls, f.news, 23 + k, "id"),
               !.eng.id_mappings = f.map,
               !.eng.id_counter = f.counter]

IdMatches(st, k, ms) ==
    IdSub(st, k, ms, IdFold(Groups(st.tp.t, ms), 1,
                            [map |-> st.eng.id_mappings, counter |-> st.eng.id_counter,
                             repls |-> <<>>, news |-> <<>>]))

IdPass(st, k) == IdMatches(st, k, FindAll(id_patterns[k], st.tp.t, 1))

RECURSIVE IdLoop(_, _)
IdLoop(st, k) ==
    IF k > Len(id_patterns) \/ st.tp.t = <<>> THEN st ELSE IdLoop(IdPass(st, k), k + 1)

deidentify_ids(st) == IdLoop(st, 1)

\* ------------------------------------------------------------ deidentify_text

Start(text, eng) ==
    [tp |-> [t |-> Cells(text), log |-> {}, hits |-> {}, gone |-> {}], eng |-> eng,
     after_emails |-> <<>>, after_phones |-> <<>>, after_names |-> <<>>]

\* the text as it is after a pass, kept for the properties
KeepEmails(st) == [st EXCEPT !.after_emails = st.tp.t]

KeepPhones(st) == [st EXCEPT !.after_phones = st.tp.t]

KeepNames(st) == [st EXCEPT !.after_names = st.tp.t]

\* The four passes in order.  The result r holds the returned text in r.tp.t
\* and the engine in r.eng.
deidentify_text(text, file_identifier, eng) ==
    deidentify_ids(
        KeepNames(deidentify_names(
            KeepPhones(deidentify_phones(
                KeepEmails(deidentify_emails(Start(text, eng), lower(file_identifier))))),
            upper(file_identifier))))

\* ------------------------------------------------------------ inputs

\* The texts the calls are made on.
Texts ==
    { \* emails of the three domain classes, one of them twice
      <<"a","@","g","m","a","i","l",".","c","o","m"," ","b","@","h","o","t","m","a","i","l",".","c","o","m"," ","c","@","u",".","e","d","u"," ","a","@","g","m","a","i","l",".","c","o","m">>,
      \* the scenario of the test suite
      <<"E","m","a","i","l",":"," ","j","o","h","n","@","e","x","a","m","p","l","e",".","c","o","m",","," ","P","h","o","n","e",":"," ","+","6","1"," ","2"," ","1","2","3","4"," ","5","6","7","8",","," ","I","D",":"," ","9","8","7","6","5","4">>,
      \* a landline, a bare digit run and a mobile number
      <<"0","2"," ","1","2","3","4"," ","5","6","7","8"," ","1","2","3","4","5","6","7","8","9"," ","0","4","1","2"," ","3","4","5"," ","6","7","8">>,
      \* a parenthesized landline as a token of its own, and one after a letter
      <<"(","0","2",")"," ","1","2","3","4"," ","5","6","7","8"," ","x","(","0","2",")"," ","1","2","3","4"," ","5","6","7","8">>,
      \* two known full names
      <<"J","o","h","n"," ","S","m","i","t","h"," ","a","n","d"," ","Z","o","e"," ","W">>,
      \* a first name alone and before a surname
      <<"J","o","h","n"," ","m","e","t"," ","J","o","h","n"," ","D","o","e">>,
      \* markup without anything to replace
      <<"#"," ","H","\n","-"," ","*","*","b","*","*"," ",">"," ","q"," ","_","c","_">>,
      \* identifiers, one of them twice
      <<"I","D",":"," ","9","8","7","6","5","4"," ","M","o","b","i","l","e",":"," ","1","2","3"," ","I","D",":"," ","9","8","7","6","5","4">>,
      \* a first name before a known full name in lower case
      <<"J","o","h","n"," ","z","o","e"," ","w">>,
      \* an email and a phone number
      <<"a","@","g","m","a","i","l",".","c","o","m"," ","+","6","1"," ","2"," ","1","2","3","4"," ","5","6","7","8">> }

\* The document identifiers: a plain file stem, and a file named after a
\* participant whose name is in specific_names.
Identifiers == {<<"D","o","c","1">>, <<"Z","o","e"," ","W">>}

\* The calls of deidentify_text made on one engine.
MaxCalls == 2

\* ------------------------------------------------------------ state

VARIABLES
    \* the fields of the PIIDeidentifier instance
    email_mappings, name_mappings, phone_mappings, id_mappings,
    email_counter, name_counter, phone_counter, id_counter,
    \* the last call of deidentify_text: its arguments, the text after each
    \* pass, the text it returned, and the bookkeeping of its passes
    text, file_identifier, after_emails, after_phones, after_names, result,
    log, hits, gone,
    \* the engine's fields before the last call, the number of calls made, whether
    \* the last call was made on the text the call before it returned, and for
    \* every replaced value of all calls the string standing for it in the
    \* returned text
    before, calls, rescan, seen,
    \* main(): its arguments, its return value and the files it wrote
    argv, exit_status, written

vars == <<email_mappings, name_mappings, phone_mappings, id_mappings,
          email_counter, name_counter, phone_counter, id_counter,
          text, file_identifier, after_emails, after_phones, after_names, result,
          log, hits, gone, before, calls, rescan, seen, argv, exit_status, written>>

engine_vars == <<email_mappings, name_mappings, phone_mappings, id_mappings,
                 email_counter, name_counter, phone_counter, id_counter>>

call_vars == <<text, file_identifier, after_emails, after_phones, after_names, result,
               log, hits, gone, before, calls, rescan, seen>>

main_vars == <<argv, exit_status, written>>

Engine ==
    [email_mappings |-> email_mappings, name_mappings |-> name_mappings,
     phone_mappings |-> phone_mappings, id_mappings |-> id_mappings,
     email_counter |-> email_counter, name_counter |-> name_counter,
     phone_counter |-> phone_counter, id_counter |-> id_counter]

\* the engine's fields become those of eng
SetEngine(eng) ==
    /\ email_mappings' = eng.email_mappings
    /\ name_mappings' = eng.name_mappings
    /\ phone_mappings' = eng.phone_mappings
    /\ id_mappings' = eng.id_mappings
    /\ email_counter' = eng.email_counter
    /\ name_counter' = eng.name_counter
    /\ phone_counter' = eng.phone_counter
    /\ id_counter' = eng.id_counter

\* the characters of the returned text that stand for replacement occ
FinalOf(out, occ) == Chars(SelectSeq(out, LAMBDA x : x.occ = occ))

Init ==
    /\ email_mappings = EmptyMap
    /\ name_mappings = EmptyMap
    /\ phone_mappings = EmptyMap
    /\ id_mappings = EmptyMap
    /\ email_counter = 1
    /\ name_counter = 1
    /\ phone_counter = 1
    /\ id_counter = 1
    /\ text = <<>>
    /\ file_identifier = <<>>
    /\ after_emails = <<>>
    /\ after_phones = <<>>
    /\ after_names = <<>>
    /\ result = <<>>
    /\ log = {}
    /\ hits = {}
    /\ gone = {}
    /\ before = NewEngine
    /\ calls = 0
    /\ rescan = FALSE
    /\ seen = {}
    /\ argv = [kind |-> "none"]
    /\ exit_status = -1
    /\ written = <<>>

\* ------------------------------------------------------------ actions

\* One call deidentify_text(t, fid) on the engine.
Call(t, fid, again) ==
    \E r \in {deidentify_text(t, fid, Engine)} :
       /\ SetEngine(r.eng)
       /\ text' = t
       /\ file_identifier' = fid
       /\ after_emails' = r.after_emails
       /\ after_phones' = r.after_phones
       /\ after_names' = r.after_names
       /\ result' = r.tp.t
       /\ log' = r.tp.log
       /\ hits' = r.tp.hits
       /\ gone' = r.tp.gone
       /\ before' = Engine
       /\ calls' = calls + 1
       /\ rescan' = again
       /\ seen' = seen \cup {[cat |-> e.cat, v |-> e.v, final |-> FinalOf(r.tp.t, e.occ)] : e \in r.tp.log}
       /\ UNCHANGED main_vars

\* deidentify_text on a text and an identifier of the caller's choice
DeidentifyText ==
    /\ calls < MaxCalls
    /\ \E t \in Texts, fid \in Identifiers : Call(t, fid, FALSE)

\* deidentify_text on the text the last call returned, with the same identifier
DeidentifyAgain ==
    /\ 0 < calls
    /\ calls < MaxCalls
    /\ Call(Chars(result), file_identifier, TRUE)

Next == DeidentifyText \/ DeidentifyAgain

Spec == Init /\ [][Next]_vars

\* ------------------------------------------------------------ process_file, process_directory, main

PREFIX == <<"d","e","i","d","e","n","t","i","f","i","e","d","_">>

MD == <<".","m","d">>

\* the index of the last "." of a file name, 0 when it has none
LastDot(name) == IF \E i \in DOMAIN name : name[i] = "." THEN CHOOSE i \in DOMAIN name : name[i] = "." /\ \A j \in DOMAIN name : name[j] = "." => j <= i ELSE 0

\* Path(name).suffix and Path(name).stem
suffix(name) == IF LastDot(name) > 1 THEN SubSeq(name, LastDot(name), Len(name)) ELSE <<>>

stem(name) == IF LastDot(name) > 1 THEN SubSeq(name, 1, LastDot(name) - 1) ELSE name

\* the identifier process_file takes from the file's name
file_stem(name) ==
    IF startswith(stem(name), PREFIX) THEN SubSeq(stem(name), 14, Len(stem(name))) ELSE stem(name)

\* Where process_file writes: the input directory "in" or the directory of
\* --output-dir, "out".
output_path(name, output_dir, in_place) ==
    IF in_place THEN [dir |-> "in", name |-> name]
    ELSE IF output_dir # "none" THEN [dir |-> "out", name |-> PREFIX \o name]
    ELSE [dir |-> "in", name |-> PREFIX \o name]

\* process_file on the state st = [eng, written, processed]: open() raises on
\* an unreadable file and on a path in a directory that does not exist (out_ok
\* is whether the directory of --output-dir exists); every exception is caught
\* and None returned.
WriteFile(st, r, path, out_ok) ==
    IF path.dir = "out" /\ ~out_ok THEN [st EXCEPT !.eng = r.eng]
    ELSE [eng |-> r.eng,
          written |-> Append(st.written, [path |-> path, content |-> Chars(r.tp.t)]),
          processed |-> Append(st.processed, path)]

process_file(st, file, output_dir, in_place, out_ok) ==
    IF ~file.readable THEN st
    ELSE WriteFile(st, deidentify_text(file.content, file_stem(file.name), st.eng),
                   output_path(file.name, output_dir, in_place), out_ok)

\* for md_file in directory.glob('*.md')
RECURSIVE process_directory(_, _, _, _, _)
process_directory(st, files, k, output_dir, in_place) ==
    IF k > Len(files) THEN st
    ELSE process_directory(
             IF suffix(files[k].name) = MD
             THEN process_file(st, files[k], output_dir, in_place, TRUE) ELSE st,
             files, k + 1, output_dir, in_place)

\* main(): the state it leaves and the value it returns.  Only an exception
\* leaving process_directory (output_dir.mkdir on a path whose parent does not
\* exist) reaches "return 1".
NoFiles == [eng |-> NewEngine, written |-> <<>>, processed |-> <<>>]

main(args) ==
    IF args.kind = "file"
    THEN IF lower(suffix(args.file.name)) = MD
         THEN [st |-> process_file(NoFiles, args.file, args.output_dir, args.in_place,
                                   args.output_dir = "exists"),
               status |-> 0]
         ELSE [st |-> NoFiles, status |-> 0]
    ELSE IF args.kind = "dir"
    THEN IF args.output_dir = "uncreatable"
         THEN [st |-> NoFiles, status |-> 1]
         ELSE [st |-> process_directory(NoFiles, args.files, 1, args.output_dir, args.in_place),
               status |-> 0]
    ELSE [st |-> NoFiles, status |-> 0]

\* The files a directory holds at most.
MaxFiles == 2

FileNames == {<<"D","o","c","1",".","m","d">>, <<"d","e","i","d","e","n","t","i","f","i","e","d","_","P","2",".","m","d">>, <<"n","o","t","e","s",".","t","x","t">>}

FileTexts ==
    { <<"j","o","h","n","@","e","x","a","m","p","l","e",".","c","o","m"," ","I","D",":"," ","9","8","7","6","5","4">>,
      <<"Z","o","e"," ","W"," ","0","4","1","2"," ","3","4","5"," ","6","7","8">> }

Files == [name : FileNames, readable : BOOLEAN, content : FileTexts]

\* the directories the glob can return: files of different names, in any order
Directories ==
    {fs \in UNION {[1..n -> Files] : n \in 0..MaxFiles} :
        \A i \in DOMAIN fs, j \in DOMAIN fs : fs[i].name = fs[j].name => i = j}

\* the directory named by --output-dir: not given, there, not there but with a
\* parent that is, or not there and without one
OutputDirs == {"none", "exists", "creatable", "uncreatable"}

Arguments ==
    [kind : {"missing"}, output_dir : OutputDirs, in_place : BOOLEAN]
    \cup [kind : {"file"}, file : Files, output_dir : OutputDirs, in_place : BOOLEAN]
    \cup [kind : {"dir"}, files : Directories, output_dir : OutputDirs, in_place : BOOLEAN]

\* One run of the command line.
Main ==
    /\ exit_status = -1
    /\ \E args \in Arguments :
          \E r \in {main(args)} :
             /\ SetEngine(r.st.eng)
             /\ argv' = args
             /\ exit_status' = r.status
             /\ written' = r.st.written
             /\ UNCHANGED call_vars

SpecMain == Init /\ [][Main]_vars

\* ------------------------------------------------------------ properties

Categories == {"email", "phone", "id"}

\* the passes of deidentify_phones, and the pass of the bare 9-10 digit pattern
PhonePasses == 2..6

BarePass == 4

\* the input characters that are still in the text t, by their index
SrcOf(t) == {t[q].src : q \in DOMAIN t} \ {0}

\* the number a placeholder ends with
RECURSIVE Number(_)
Number(s) ==
    IF s = <<>> \/ s[Len(s)] \notin Digits THEN 0
    ELSE 10 * Number(SubSeq(s, 1, Len(s) - 1)) + (IndexIn(DigitChars, s[Len(s)]) - 1)

\* C1: any two occurrences of the same original email, phone number or
\* identifier, in one call or in different calls on the engine, stand in the
\* returned texts as the same replacement string.
C1_Consistency ==
    \A a \in seen, b \in seen :
        (a.cat \in Categories /\ a.cat = b.cat /\ a.v = b.v) => a.final = b.final

\* C2: no substring matched by a pass of deidentify_text is found verbatim in
\* the returned text, matches of the bare 9-10 digit pattern excepted.
C2_NoLeakage ==
    \A e \in log : e.pass # BarePass => ~Contains(Chars(result), e.v)

\* C3: deidentify_text on a text it returned, on the same engine and with the
\* same identifier, returns that text unchanged.
C3_Idempotence == rescan => Chars(result) = text

\* the placeholder the claim routes an email to
Routed(email, id) ==
    lower(id) \o <<"@">> \o (IF Contains(DomainOf(email), GMAIL) THEN GMAIL
                            ELSE IF Contains(DomainOf(email), HOTMAIL) THEN HOTMAIL
                            ELSE EXAMPLE)

\* C4: an email that was not in email_mappings stands in the returned text as
\* lower(id)@gmail.com, lower(id)@hotmail.com or lower(id)@example.com,
\* by its domain.
C4_EmailRouting ==
    \A e \in log :
        (e.cat = "email" /\ e.new) => FinalOf(result, e.occ) = Routed(e.v, file_identifier)

\* the k-th phone format as written, without the word boundaries of its pattern
Format(k) == SelectSeq(phone_patterns[k], LAMBDA it : it.k # "b")

\* position p starts a token of t, and position e is just after one
TokenStart(t, p) == p = 1 \/ t[p - 1].c \in SpaceChars

TokenEnd(t, e) == e = Len(t) + 1 \/ t[e].c \in SpaceChars

\* C5: a number in any of the five formats that is a token of the text given
\* to deidentify_phones is replaced: none of its characters is left.
C5_PhoneFormats ==
    \A k \in DOMAIN phone_patterns, p \in DOMAIN after_emails :
        LET e == Match(Format(k), 1, after_emails, p)
        IN (TokenStart(after_emails, p) /\ e # 0 /\ TokenEnd(after_emails, e))
               => \A q \in p..(e - 1) :
                      after_emails[q].src # 0 => after_emails[q].src \notin SrcOf(after_phones)

\* C6: every whole-word occurrence of a common first name in the text given to
\* deidentify_names that is not followed there by whitespace and an upper-case
\* letter is replaced: none of its characters is left in the text returned.
C6_StandaloneNames ==
    \A k \in DOMAIN common_first_names, p \in DOMAIN after_phones :
        LET e == Match(CommonPattern(k), 1, after_phones, p)
        IN e # 0 => \A q \in p..(e - 1) :
                        after_phones[q].src # 0 => after_phones[q].src \notin SrcOf(after_names)

\* the input characters deidentify_text left in its result, in the result's order
Kept == SelectSeq(result, LAMBDA x : x.src # 0)

Matched == log # {} \/ hits # {}

\* C7: every input character outside the spans the passes matched is in the
\* returned text, unchanged and in the input's order, and a call on a text in
\* which nothing matches returns the text and leaves every mapping table and
\* counter as it was.
C7_Preservation ==
    /\ \A i \in DOMAIN text : i \notin gone => \E q \in DOMAIN Kept : Kept[q].src = i
    /\ \A q \in DOMAIN Kept : Kept[q].c = text[Kept[q].src] /\ Kept[q].src \notin gone
    /\ \A q \in DOMAIN Kept : q > 1 => Kept[q - 1].src < Kept[q].src
    /\ ~Matched => (Chars(result) = text /\ Engine = before)

\* C7 witness: a call that replaced part of its text and kept part of it
C7_Witness == calls > 0 /\ gone # {} /\ Kept # <<>> /\ Chars(result) # text

\* a table only gains entries
Grown(old, new) == \A v \in DOMAIN old : v \in DOMAIN new /\ new[v] = old[v]

\* the entries of log for the values a table gained in the last call
NewIn(cat) == {e \in log : e.cat = cat /\ e.new}

\* the values a table gained got the counter's next numbers, in the order of
\* their replacement, and no two values of the table share a replacement
Numbered(old, new, counter) ==
    /\ {Number(new[v]) : v \in DOMAIN new \ DOMAIN old} = counter..(counter + Cardinality(DOMAIN new \ DOMAIN old) - 1)
    /\ {Number(new[v]) : v \in DOMAIN new} = 1..Cardinality(DOMAIN new)
    /\ \A v \in DOMAIN new, w \in DOMAIN new : new[v] = new[w] => v = w

\* C9: phone_mappings and id_mappings only gain entries, each counter is one
\* more than the size of its table and never decreases, and the k-th new value
\* of a category gets the placeholder numbered k, whichever pattern matched it.
C9_Counters ==
    /\ Grown(before.phone_mappings, phone_mappings)
    /\ Grown(before.id_mappings, id_mappings)
    /\ phone_counter = 1 + Cardinality(DOMAIN phone_mappings)
    /\ id_counter = 1 + Cardinality(DOMAIN id_mappings)
    /\ phone_counter >= before.phone_counter
    /\ id_counter >= before.id_counter
    /\ Numbered(before.phone_mappings, phone_mappings, before.phone_counter)
    /\ Numbered(before.id_mappings, id_mappings, before.id_counter)
    /\ \A a \in log, b \in log :
           (a.new /\ b.new /\ a.cat = b.cat /\ a.cat \in {"phone", "id"} /\ a.occ < b.occ)
               => Number(a.repl) < Number(b.repl)

\* C9 witness: both tables filled, the phone table in two calls and in the
\* last one by more than one pattern
C9_Witness ==
    /\ Cardinality(DOMAIN phone_mappings) >= 3
    /\ Cardinality(DOMAIN before.phone_mappings) >= 1
    /\ Cardinality(DOMAIN id_mappings) >= 1
    /\ Cardinality({e.pass : e \in NewIn("phone")}) >= 2

\* C10: the phone patterns run in their listed order, each on the text the one
\* before it returned (the new values of an earlier pattern are numbered before
\* those of a later one), and no pattern matches a character written by the
\* pass of an earlier phone pattern.
C10_PhoneOrder ==
    /\ \A h \in hits : h[1] \in PhonePasses => h[2] \notin PhonePasses
    /\ \A a \in NewIn("phone"), b \in NewIn("phone") :
           a.pass < b.pass => Number(a.repl) < Number(b.repl)
    /\ \A q \in DOMAIN after_phones :
           after_phones[q].by \in PhonePasses => \E r \in DOMAIN result : result[r] = after_phones[q]

\* C10 witness: three phone patterns have written placeholders into one text,
\* a later pattern before (in the text) an earlier one
C10_Witness ==
    /\ Cardinality({e.pass : e \in NewIn("phone")}) >= 3
    /\ \E q \in DOMAIN after_phones, r \in DOMAIN after_phones :
           /\ q < r
           /\ after_phones[q].by \in PhonePasses
           /\ after_phones[r].by \in PhonePasses
           /\ after_phones[q].by > after_phones[r].by

\* the input path of main() is invalid or unreadable
Invalid(args) ==
    \/ args.kind = "missing"
    \/ args.kind = "file" /\ (lower(suffix(args.file.name)) # MD \/ ~args.file.readable)

\* the input of main() was processed: the file, or every markdown file of the
\* directory, was read and its result written
Processed(args) ==
    \/ args.kind = "file" /\ ~Invalid(args) /\ Len(written) = 1
    \/ args.kind = "dir" /\ Len(written) = Cardinality({k \in DOMAIN args.files : suffix(args.files[k].name) = MD})

\* C8: main() returns 0 when the input was processed and a non-zero status
\* when the input path does not exist, is a file that is not a .md file, or is
\* a file that cannot be read.
C8_ExitStatus ==
    exit_status # -1 =>
        /\ Processed(argv) => exit_status = 0
        /\ Invalid(argv) => exit_status # 0

====
